---- MODULE Spec2Model ----
(***************************************************************************)
(* Lead Qualification API (src/main.py): the session-id resolver, the      *)
(* document normaliser (flatten_lead, extract_chat) and the four read      *)
(* endpoints, modelled over an abstract document store.                    *)
(*                                                                         *)
(* Python / BSON values are tagged records [t |-> <type>, v |-> <payload>];*)
(* a string is the sequence of its characters, a mapping is a function     *)
(* from its possible keys to values with Absent marking a missing key.     *)
(***************************************************************************)
EXTENDS Integers, Sequences, FiniteSets, TLC

VARIABLES store, pc, req, cur, acc, resp

vars == <<store, pc, req, cur, acc, resp>>

(***************************************************************************)
(* Values                                                                  *)
(***************************************************************************)
Absent == [t |-> "absent"]
Null == [t |-> "null"]
Bool(b) == [t |-> "bool", v |-> b]
IntV(n) == [t |-> "int", v |-> n]
Str(s) == [t |-> "str", v |-> s]
List(l) == [t |-> "list", v |-> l]
Dict(f) == [t |-> "dict", v |-> f]
ObjectId(n) == [t |-> "ObjectId", v |-> n]
Datetime(n) == [t |-> "datetime", v |-> n]

IsDict(x) == x.t = "dict"
IsList(x) == x.t = "list"
IsStr(x) == x.t = "str"

DigitChars == <<"0", "1", "2", "3", "4", "5", "6", "7", "8", "9">>

isdigit(c) == \E i \in 1..Len(DigitChars) : DigitChars[i] = c

isspace(c) == c = " "

DigitVal(c) == (CHOOSE i \in 1..Len(DigitChars) : DigitChars[i] = c) - 1

RECURSIVE NatToStr(_)
NatToStr(n) ==
    IF n < 10 THEN <<DigitChars[n + 1]>>
    ELSE NatToStr(n \div 10) \o <<DigitChars[(n % 10) + 1]>>

\* str(n) of a Python int
IntToStr(n) == IF n < 0 THEN <<"-">> \o NatToStr(0 - n) ELSE NatToStr(n)

\* int(s) of a non-empty string of decimal digits
RECURSIVE ParseInt(_)
ParseInt(s) ==
    IF s = <<>> THEN 0
    ELSE 10 * ParseInt(SubSeq(s, 1, Len(s) - 1)) + DigitVal(s[Len(s)])

\* len(x) of a str, list or dict
PyLen(x) ==
    IF IsDict(x) THEN Cardinality({k \in DOMAIN x.v : x.v[k] # Absent})
    ELSE Len(x.v)

\* bool(x): Python truthiness
Truthy(x) ==
    CASE x.t = "null" -> FALSE
      [] x.t = "bool" -> x.v
      [] x.t = "int" -> x.v # 0
      [] x.t \in {"str", "list", "dict"} -> PyLen(x) > 0

\* x or d
PyOr(x, d) == IF Truthy(x) THEN x ELSE d

\* str(x)
PyStr(x) ==
    CASE x.t = "str" -> x.v
      [] x.t = "int" -> IntToStr(x.v)
      [] x.t = "null" -> <<"N", "o", "n", "e">>
      [] x.t = "bool" -> IF x.v THEN <<"T", "r", "u", "e">>
                                ELSE <<"F", "a", "l", "s", "e">>
      [] x.t = "list" /\ x.v = <<>> -> <<"[", "]">>
      [] x.t = "dict" /\ PyLen(x) = 0 -> <<"{", "}">>

\* d.get(k, default)
DictGet(d, k, default) == IF d.v[k] = Absent THEN default ELSE d.v[k]

\* d.pop(k, None), as the mapping left behind
DictPop(d, k) == Dict([d.v EXCEPT ![k] = Absent])

\* str(ObjectId) and datetime.isoformat(), as distinct strings per value
ObjectIdStr(n) == <<"o", "i", "d">> \o NatToStr(n)
isoformat(n) == <<"2", "0", "2", "4", "-", "0", "1", "-", "0">> \o NatToStr(n)

(***************************************************************************)
(* Helpers: serialize, flatten_lead, extract_chat                          *)
(***************************************************************************)
RECURSIVE serialize(_)
serialize(obj) ==
    CASE obj.t = "dict" ->
           Dict([k \in DOMAIN obj.v |->
                    IF obj.v[k] = Absent THEN Absent ELSE serialize(obj.v[k])])
      [] obj.t = "list" ->
           List([i \in 1..Len(obj.v) |-> serialize(obj.v[i])])
      [] obj.t = "ObjectId" -> Str(ObjectIdStr(obj.v))
      [] obj.t = "datetime" -> Str(isoformat(obj.v))
      [] OTHER -> obj

sUNKNOWN == <<"U", "N", "K", "N", "O", "W", "N">>
sPENDING == <<"P", "E", "N", "D", "I", "N", "G">>
sunknown == <<"u", "n", "k", "n", "o", "w", "n">>

\* has_output without the emptiness test
has_output_any_mapping(output) == IsDict(output)

\* has_output = isinstance(output, dict) and len(output) > 0
has_output_of(output) == IsDict(output) /\ PyLen(output) > 0

\* the else branch of flatten_lead: the pending defaults
PendingFields ==
    [qualified |-> Bool(FALSE), intent |-> Str(sPENDING),
     confidence |-> IntV(0), signals |-> List(<<>>), summary |-> List(<<>>)]

OutputFields(output) ==
    [qualified |-> DictGet(output, "qualified", Bool(FALSE)),
     intent |-> DictGet(output, "intent", Str(sUNKNOWN)),
     confidence |-> PyOr(DictGet(output, "confidence", IntV(0)), IntV(0)),
     signals |-> PyOr(DictGet(output, "signals", List(<<>>)), List(<<>>)),
     summary |-> PyOr(DictGet(output, "summary", List(<<>>)), List(<<>>))]

flatten_lead(doc0) ==
    LET doc == DictPop(serialize(doc0), "_id")
        output == DictGet(doc, "output", Null)
        has_output == has_output_of(output)
        base == [sessionId |-> Str(PyStr(DictGet(doc, "sessionId", Str(<<>>)))),
                 messageLength |-> PyOr(DictGet(doc, "messageLength", IntV(0)), IntV(0)),
                 analysedAt |-> DictGet(doc, "analysedAt", Null),
                 leadAnalysed |-> DictGet(doc, "leadAnalysed", Bool(FALSE)),
                 hasOutput |-> Bool(has_output)]
    IN  IF has_output THEN base @@ OutputFields(output)
        ELSE base @@ PendingFields

\* content without the branch for a data that is itself a string
content_of_mapping_only(data) ==
    IF IsDict(data) THEN DictGet(data, "content", Str(<<>>)) ELSE Str(<<>>)

\* content = "" / data.get("content", "") / data
content_of(data) ==
    IF IsDict(data) THEN DictGet(data, "content", Str(<<>>))
    ELSE IF IsStr(data) THEN data
    ELSE Str(<<>>)

\* extract_chat's loop over messages, from entry i on, chat so far
RECURSIVE chat_loop(_, _, _)
chat_loop(messages, i, chat) ==
    IF i > Len(messages) THEN chat
    ELSE LET m == messages[i]
         IN  IF ~IsDict(m) THEN chat_loop(messages, i + 1, chat)
             ELSE LET msg_type == DictGet(m, "type", Str(sunknown))
                      data == DictGet(m, "data", Null)
                      content == content_of(data)
                  IN  IF Truthy(content)
                      THEN chat_loop(messages, i + 1,
                             Append(chat, [type |-> msg_type, content |-> Str(PyStr(content))]))
                      ELSE chat_loop(messages, i + 1, chat)

extract_chat(doc) ==
    LET raw == serialize(doc)
        messages == DictGet(raw, "messages", List(<<>>))
    IN  IF ~IsList(messages) THEN <<>>
        ELSE chat_loop(messages.v, 1, <<>>)

(***************************************************************************)
(* Stored documents                                                        *)
(***************************************************************************)
Doc(id, sid, ml, at, la, out, msgs) ==
    Dict([_id |-> ObjectId(id), sessionId |-> sid, messageLength |-> ml,
          analysedAt |-> at, leadAnalysed |-> la, output |-> out, messages |-> msgs])

Output(q, i, c, sg, sm, o) ==
    Dict([qualified |-> q, intent |-> i, confidence |-> c, signals |-> sg,
          summary |-> sm, other |-> o])

Message(ty, data) == Dict([type |-> ty, data |-> data])

Data(content) == Dict([content |-> content])

sBUY == <<"B", "U", "Y">>
sbuy == <<"b", "u", "y">>
sSELL == <<"S", "E", "L", "L">>
s42 == <<"4", "2">>
shuman == <<"h", "u", "m", "a", "n">>
shi == <<"h", "i">>
syo == <<"y", "o">>

\* sequences over S of length at most n
SeqsUpTo(S, n) == UNION {[1..k -> S] : k \in 0..n}

(***************************************************************************)
(* Requests: one handler invocation each, with its own local variables     *)
(***************************************************************************)
NumReqs == 2

Reqs == 1..NumReqs

NoReq == [kind |-> "none"]
NoAcc == [kind |-> "none"]
NoResp == [status |-> 0]

IdleAll ==
    /\ pc = [r \in Reqs |-> "idle"]
    /\ req = [r \in Reqs |-> NoReq]
    /\ cur = [r \in Reqs |-> 0]
    /\ acc = [r \in Reqs |-> NoAcc]
    /\ resp = [r \in Reqs |-> NoResp]

\* the local variables of request r's handler invocation
Local(r) == [pc |-> pc[r], cur |-> cur[r], acc |-> acc[r], resp |-> resp[r]]

\* a handler's locals kept in module-level globals, shared by its invocations
ApplyGlobals(r, l) ==
    LET sharing == {q \in Reqs : q = r \/ acc[q].kind = l.acc.kind}
    IN  /\ pc' = [pc EXCEPT ![r] = l.pc]
        /\ cur' = [q \in Reqs |-> IF q \in sharing THEN l.cur ELSE cur[q]]
        /\ acc' = [q \in Reqs |-> IF q \in sharing THEN l.acc ELSE acc[q]]
        /\ resp' = [resp EXCEPT ![r] = l.resp]

\* request r's handler moves to the local state l; no other invocation sees it
Apply(r, l) ==
    /\ pc' = [pc EXCEPT ![r] = l.pc]
    /\ cur' = [cur EXCEPT ![r] = l.cur]
    /\ acc' = [acc EXCEPT ![r] = l.acc]
    /\ resp' = [resp EXCEPT ![r] = l.resp]

(***************************************************************************)
(* flatten_lead applied to one raw document                                *)
(***************************************************************************)
FlattenOutputs ==
    {Absent, Null, Str(<<"x">>)} \cup
    {Output(q, i, c, sg, sm, o) :
        q \in {Absent, Null, Bool(TRUE)},
        i \in {Absent, Null, Str(sBUY)},
        c \in {Absent, Null, IntV(90), Str(<<"h">>)},
        sg \in {Absent, Null, List(<<Str(<<"a">>)>>)},
        sm \in {Absent, List(<<>>), Str(<<"x">>)},
        o \in {Absent, IntV(1)}}

FlattenDocs ==
    {Doc(1, sid, ml, at, la, out, Absent) :
        sid \in {Absent, Str(s42), IntV(42)},
        ml \in {Absent, Null, IntV(5), IntV(0 - 1)},
        at \in {Absent, Datetime(1), IntV(3)},
        la \in {Absent, Null, Bool(TRUE)},
        out \in FlattenOutputs}

InitFlatten == store \in {<<d>> : d \in FlattenDocs} /\ IdleAll

FlattenCall ==
    /\ pc[1] = "idle"
    /\ pc' = [pc EXCEPT ![1] = "done"]
    /\ req' = [req EXCEPT ![1] = [kind |-> "flatten"]]
    /\ resp' = [resp EXCEPT ![1] = [status |-> 200, body |-> flatten_lead(store[1])]]
    /\ UNCHANGED <<store, cur, acc>>

NextFlatten == FlattenCall

SpecFlatten == InitFlatten /\ [][NextFlatten]_vars

(***************************************************************************)
(* extract_chat applied to one raw document                                *)
(***************************************************************************)
MaxMsgs == 2

ChatEntries ==
    {Str(<<"x">>), Null} \cup
    {Message(ty, d) :
        ty \in {Absent, Str(shuman)},
        d \in {Absent, Null, Str(<<>>), Str(shi), IntV(7)} \cup
              {Data(c) : c \in {Absent, Null, Str(<<>>), Str(syo), IntV(0), IntV(5)}}}

ChatMessages ==
    {Absent, Null, Str(shi), Data(Str(syo))} \cup
    {List(l) : l \in SeqsUpTo(ChatEntries, MaxMsgs)}

ChatDocs == {Doc(1, Str(s42), Absent, Absent, Absent, Absent, m) : m \in ChatMessages}

InitChat == store \in {<<d>> : d \in ChatDocs} /\ IdleAll

ChatCall ==
    /\ pc[1] = "idle"
    /\ pc' = [pc EXCEPT ![1] = "done"]
    /\ req' = [req EXCEPT ![1] = [kind |-> "chat"]]
    /\ resp' = [resp EXCEPT ![1] = [status |-> 200, body |-> extract_chat(store[1])]]
    /\ UNCHANGED <<store, cur, acc>>

NextChat == ChatCall

SpecChat == InitChat /\ [][NextChat]_vars

(***************************************************************************)
(* The document store's queries, over the collection in natural order.     *)
(* A document is referred to by its position; 0 is None.                   *)
(***************************************************************************)
First(I) == IF I = {} THEN 0 ELSE CHOOSE i \in I : \A j \in I : i <= j

\* Python's `sub in s` on strings
Contains(s, sub) ==
    \E i \in 0..(Len(s) - Len(sub)) : SubSeq(s, i + 1, i + Len(sub)) = sub

\* find_one({"sessionId": sid}) answering on the stringified sessionId
find_exact_stringified(col, sid) ==
    First({i \in DOMAIN col : col[i].v.sessionId # Absent /\ PyStr(col[i].v.sessionId) = sid})

\* find_one({"sessionId": sid}), sid a string
find_exact(col, sid) == First({i \in DOMAIN col : col[i].v.sessionId = Str(sid)})

\* find_one({"sessionId": str(n)})
find_int_as_string(col, n) ==
    First({i \in DOMAIN col : col[i].v.sessionId = Str(IntToStr(n))})

\* find_one({"sessionId": n}), n an integer
find_int(col, n) == First({i \in DOMAIN col : col[i].v.sessionId = IntV(n)})

\* find_one({"sessionId": {"$regex": digits}}): string fields holding the digits
find_regex(col, digits) ==
    First({i \in DOMAIN col :
             col[i].v.sessionId.t = "str" /\ Contains(col[i].v.sessionId.v, digits)})

\* find(query).limit(n): the first n documents, by position
limit(col, n) == IF Len(col) <= n THEN DOMAIN col ELSE 1..n

(***************************************************************************)
(* find_by_session and get_lead                                            *)
(***************************************************************************)
\* the largest integer a BSON document holds (2^63 - 1 in the driver), scaled
BsonIntMax == 300

\* the fallback scan's limit(200), scaled
ScanLimit == 2

RECURSIVE lstrip(_)
lstrip(s) == IF s # <<>> /\ isspace(s[1]) THEN lstrip(Tail(s)) ELSE s

RECURSIVE rstrip(_)
rstrip(s) ==
    IF s # <<>> /\ isspace(s[Len(s)]) THEN rstrip(SubSeq(s, 1, Len(s) - 1)) ELSE s

strip(s) == rstrip(lstrip(s))

digits_of(sid) == SelectSeq(sid, isdigit)

\* doc_sid == sid or digits in doc_sid, for the scanned document d
scan_match(d, sid, digits) ==
    LET doc_sid == PyStr(DictGet(d, "sessionId", Str(<<>>)))
    IN  doc_sid = sid \/ Contains(doc_sid, digits)

\* find_by_session's entry: sid and digits
start_get(session_id) ==
    [pc |-> "attempt1", cur |-> 0, resp |-> NoResp,
     acc |-> [kind |-> "get", sid |-> strip(session_id),
              digits |-> digits_of(strip(session_id)),
              doc |-> 0, found_by |-> "none", tried |-> {}]]

\* after a query: return the document found, or go on to the next attempt
found(l, doc, by, tried, next) ==
    IF doc # 0
    THEN [l EXCEPT !.acc.doc = doc, !.acc.found_by = by,
                   !.acc.tried = @ \cup tried, !.pc = "resolved"]
    ELSE [l EXCEPT !.acc.tried = @ \cup tried, !.pc = next]

\* Attempt 1: exact string match
attempt1(col, l) == found(l, find_exact(col, l.acc.sid), "exact", {"exact"}, "attempt2")

\* Attempt 2: as integer; an integer BSON cannot hold raises OverflowError
attempt2(col, l) ==
    IF l.acc.digits # <<>> /\ ParseInt(l.acc.digits) <= BsonIntMax
    THEN found(l, find_int(col, ParseInt(l.acc.digits)), "int", {"int"}, "attempt3")
    ELSE found(l, 0, "none", {}, "attempt3")

\* Attempt 3: regex on string; then the scan's cursor is opened
attempt3(col, l) ==
    IF l.acc.digits # <<>>
    THEN found([l EXCEPT !.cur = 1], find_regex(col, l.acc.digits),
               "regex", {"regex"}, "scan")
    ELSE found([l EXCEPT !.cur = 1], 0, "none", {}, "scan")

\* Attempt 4: one document of the cursor find({}).limit(200), or its end
scan_step(col, l) ==
    IF l.cur \in limit(col, ScanLimit)
    THEN found([l EXCEPT !.cur = @ + 1],
               IF scan_match(col[l.cur], l.acc.sid, l.acc.digits) THEN l.cur ELSE 0,
               "scan", {"scan"}, "scan")
    ELSE found(l, 0, "none", {"scan"}, "resolved")

\* get_lead after find_by_session returned
get_lead_response(col, doc) ==
    IF doc = 0 THEN [status |-> 404]
    ELSE [status |-> 200,
          body |-> flatten_lead(col[doc]) @@ [chat |-> extract_chat(col[doc])]]

get_finish(col, l) ==
    [l EXCEPT !.resp = get_lead_response(col, l.acc.doc), !.pc = "done"]

GetStart(r, Inputs) ==
    /\ pc[r] = "idle"
    /\ \E session_id \in Inputs :
         /\ req' = [req EXCEPT ![r] = [kind |-> "get", session_id |-> session_id]]
         /\ Apply(r, start_get(session_id))
    /\ UNCHANGED store

Attempt1(r) ==
    /\ pc[r] = "attempt1"
    /\ Apply(r, attempt1(store, Local(r)))
    /\ UNCHANGED <<store, req>>

Attempt2(r) ==
    /\ pc[r] = "attempt2"
    /\ Apply(r, attempt2(store, Local(r)))
    /\ UNCHANGED <<store, req>>

Attempt3(r) ==
    /\ pc[r] = "attempt3"
    /\ Apply(r, attempt3(store, Local(r)))
    /\ UNCHANGED <<store, req>>

ScanStep(r) ==
    /\ pc[r] = "scan"
    /\ Apply(r, scan_step(store, Local(r)))
    /\ UNCHANGED <<store, req>>

GetFinish(r) ==
    /\ pc[r] = "resolved"
    /\ Apply(r, get_finish(store, Local(r)))
    /\ UNCHANGED <<store, req>>

(***************************************************************************)
(* list_leads                                                              *)
(***************************************************************************)
\* the cursor's limit(500), scaled
ListLimit == 3

LowerChars == <<"a", "b", "c", "d", "e", "f", "g", "h", "i", "j", "k", "l", "m",
                "n", "o", "p", "q", "r", "s", "t", "u", "v", "w", "x", "y", "z">>
UpperChars == <<"A", "B", "C", "D", "E", "F", "G", "H", "I", "J", "K", "L", "M",
                "N", "O", "P", "Q", "R", "S", "T", "U", "V", "W", "X", "Y", "Z">>

upper_char(c) ==
    IF \E i \in 1..Len(LowerChars) : LowerChars[i] = c
    THEN UpperChars[CHOOSE i \in 1..Len(LowerChars) : LowerChars[i] = c]
    ELSE c

\* s.upper()
upper(s) == [i \in 1..Len(s) |-> upper_char(s[i])]

\* the store's ordering of analysedAt values: a missing field sorts before dates
sort_key(d) == IF d.v.analysedAt.t = "datetime" THEN d.v.analysedAt.v ELSE 0

\* sort("analysedAt", dir) of the documents at positions I; ties in natural order
RECURSIVE sort_positions(_, _, _)
sort_positions(col, I, dir) ==
    IF I = {} THEN <<>>
    ELSE LET best == CHOOSE i \in I : \A j \in I :
                        \/ dir * sort_key(col[i]) < dir * sort_key(col[j])
                        \/ sort_key(col[i]) = sort_key(col[j]) /\ i <= j
         IN  <<best>> \o sort_positions(col, I \ {best}, dir)

Take(q, n) == IF Len(q) <= n THEN q ELSE SubSeq(q, 1, n)

\* col.find(mongo_query).sort("analysedAt", sort_dir).limit(500), as positions
list_cursor(col, search, sort) ==
    LET digits == IF Truthy(search) THEN digits_of(search.v) ELSE <<>>
        matching == IF digits # <<>>
                    THEN {i \in DOMAIN col :
                            /\ col[i].v.sessionId.t = "str"
                            /\ Contains(col[i].v.sessionId.v, digits)}
                    ELSE DOMAIN col
        sort_dir == IF sort = "desc" THEN 0 - 1 ELSE 1
    IN  Take(sort_positions(col, matching, sort_dir), ListLimit)

\* the loop body's three tests: the lead is appended when none says `continue`
passes(lead, intent, qualified) ==
    /\ lead.hasOutput.v
    /\ ~(Truthy(intent) /\ lead.intent # Str(upper(intent.v)))
    /\ ~(qualified # Null /\ lead.qualified # qualified)

\* s[a:b] for 0 <= a <= b
py_slice(s, a, b) ==
    IF a >= Len(s) THEN <<>>
    ELSE SubSeq(s, a + 1, IF b <= Len(s) THEN b ELSE Len(s))

has_more_inclusive(skip, lim, total) == (skip + lim) <= total

\* "hasMore": (skip + limit) < total
has_more(skip, lim, total) == (skip + lim) < total

start_list(col, rq) ==
    [pc |-> "list_iter", cur |-> 1, resp |-> NoResp,
     acc |-> [kind |-> "list", cursor |-> list_cursor(col, rq.search, rq.sort),
              all_leads |-> <<>>]]

list_response(all_leads, skip, lim) ==
    [status |-> 200,
     body |-> [leads |-> py_slice(all_leads, skip, skip + lim),
               total |-> Len(all_leads), skip |-> skip, limit |-> lim,
               hasMore |-> has_more(skip, lim, Len(all_leads))]]

\* one document of the cursor, or the response once it is exhausted
list_step(col, rq, l) ==
    IF l.cur <= Len(l.acc.cursor)
    THEN LET lead == flatten_lead(col[l.acc.cursor[l.cur]])
         IN  IF passes(lead, rq.intent, rq.qualified)
             THEN [l EXCEPT !.cur = @ + 1, !.acc.all_leads = Append(@, lead)]
             ELSE [l EXCEPT !.cur = @ + 1]
    ELSE [l EXCEPT !.resp = list_response(l.acc.all_leads, rq.skip, rq.limit),
                   !.pc = "done"]

ListStart(r, Params) ==
    /\ pc[r] = "idle"
    /\ \E rq \in Params :
         /\ req' = [req EXCEPT ![r] = rq]
         /\ Apply(r, start_list(store, rq))
    /\ UNCHANGED store

ListStep(r) ==
    /\ pc[r] = "list_iter"
    /\ Apply(r, list_step(store, req[r], Local(r)))
    /\ UNCHANGED <<store, req>>

(***************************************************************************)
(* get_stats.  Numbers with a fractional part are held in thousandths      *)
(* (confidence 0.9 is 900); avgMessages is held in tenths.                 *)
(***************************************************************************)
\* the cursor's limit(1000), scaled
StatsLimit == 3

\* round(n / d, k) with n / d already scaled by 10^k: nearest, ties to even
round_div(n, d) ==
    LET q == n \div d
        m == n % d
    IN  IF 2 * m > d \/ (2 * m = d /\ q % 2 = 1) THEN q + 1 ELSE q

IsNumber(x) == x.t \in {"int", "bool"}

NumVal(x) == IF x.t = "bool" THEN (IF x.v THEN 1 ELSE 0) ELSE x.v

start_stats ==
    [pc |-> "stats_iter", cur |-> 1, resp |-> NoResp,
     acc |-> [kind |-> "stats", total |-> 0, qualified_count |-> 0,
              confidence_sum |-> 0, message_sum |-> 0, intent_counts |-> <<>>]]

\* intent_counts[intent] = 1, the count so far forgotten
count_intent_reset(intent_counts, intent) ==
    [k \in DOMAIN intent_counts \cup {intent} |->
        IF k = intent THEN 1 ELSE intent_counts[k]]

\* intent_counts[intent] = intent_counts.get(intent, 0) + 1
count_intent(intent_counts, intent) ==
    [k \in DOMAIN intent_counts \cup {intent} |->
        IF k \in DOMAIN intent_counts
        THEN intent_counts[k] + (IF k = intent THEN 1 ELSE 0)
        ELSE 1]

\* one analysed lead added to the running sums
add_lead(a, lead) ==
    [a EXCEPT !.total = @ + 1,
              !.qualified_count = IF Truthy(lead.qualified) THEN @ + 1 ELSE @,
              !.confidence_sum = @ + NumVal(PyOr(lead.confidence, IntV(0))),
              !.message_sum = @ + NumVal(PyOr(lead.messageLength, IntV(0))),
              !.intent_counts = count_intent(@, lead.intent)]

\* the additions and the dictionary key raise TypeError on other types
addable(lead) ==
    /\ IsNumber(PyOr(lead.confidence, IntV(0)))
    /\ IsNumber(PyOr(lead.messageLength, IntV(0)))
    /\ lead.intent.t \notin {"list", "dict"}

stats_response(a) ==
    IF a.total = 0
    THEN [status |-> 200,
          body |-> [total |-> 0, qualified |-> 0, notQualified |-> 0,
                    qualificationRate |-> 0, avgConfidence |-> 0,
                    avgMessages |-> 0, intentBreakdown |-> <<>>]]
    ELSE [status |-> 200,
          body |-> [total |-> a.total, qualified |-> a.qualified_count,
                    notQualified |-> a.total - a.qualified_count,
                    qualificationRate |-> round_div(a.qualified_count * 1000, a.total),
                    avgConfidence |-> round_div(a.confidence_sum, a.total),
                    avgMessages |-> round_div(a.message_sum * 10, a.total),
                    intentBreakdown |-> a.intent_counts]]

\* one document of the cursor find({}).limit(1000), or the response at its end
stats_step(col, l) ==
    IF l.cur \in limit(col, StatsLimit)
    THEN LET lead == flatten_lead(col[l.cur])
         IN  IF ~lead.hasOutput.v THEN [l EXCEPT !.cur = @ + 1]
             ELSE IF addable(lead)
             THEN [l EXCEPT !.cur = @ + 1, !.acc = add_lead(@, lead)]
             ELSE [l EXCEPT !.resp = [status |-> 500], !.pc = "done"]
    ELSE [l EXCEPT !.resp = stats_response(l.acc), !.pc = "done"]

StatsStart(r) ==
    /\ pc[r] = "idle"
    /\ req' = [req EXCEPT ![r] = [kind |-> "stats"]]
    /\ Apply(r, start_stats)
    /\ UNCHANGED store

StatsStep(r) ==
    /\ pc[r] = "stats_iter"
    /\ Apply(r, stats_step(store, Local(r)))
    /\ UNCHANGED <<store, req>>

(***************************************************************************)
(* health (the store answers the ping)                                     *)
(***************************************************************************)
\* the cursor's limit(500), scaled
HealthLimit == 3

start_health ==
    [pc |-> "ping", cur |-> 0, resp |-> NoResp,
     acc |-> [kind |-> "health", total |-> 0, with_output |-> 0]]

health_step(col, l) ==
    CASE l.pc = "ping" -> [l EXCEPT !.pc = "count"]
      [] l.pc = "count" ->
           [l EXCEPT !.acc.total = Len(col), !.cur = 1, !.pc = "health_iter"]
      [] l.pc = "health_iter" ->
           IF l.cur \in limit(col, HealthLimit)
           THEN LET o == DictGet(col[l.cur], "output", Null)
                IN  IF IsDict(o) /\ PyLen(o) > 0
                    THEN [l EXCEPT !.cur = @ + 1, !.acc.with_output = @ + 1]
                    ELSE [l EXCEPT !.cur = @ + 1]
           ELSE [l EXCEPT !.pc = "done",
                          !.resp = [status |-> 200,
                                    body |-> [status |-> "ok", database |-> "test",
                                              collection |-> "customerChats",
                                              totalDocuments |-> l.acc.total,
                                              withAnalysis |-> l.acc.with_output]]]

HealthStart(r) ==
    /\ pc[r] = "idle"
    /\ req' = [req EXCEPT ![r] = [kind |-> "health"]]
    /\ Apply(r, start_health)
    /\ UNCHANGED store

HealthStep(r) ==
    /\ pc[r] \in {"ping", "count", "health_iter"}
    /\ Apply(r, health_step(store, Local(r)))
    /\ UNCHANGED <<store, req>>

(***************************************************************************)
(* One GET /api/leads/{session_id} against every small store               *)
(***************************************************************************)
MaxDocs == 3
MaxLen == 3

s242 == <<"2", "4", "2">>

StoredSessionIds == {Absent, Str(s42), Str(s242), IntV(42), IntV(242)}

ResolveStores ==
    {[i \in 1..Len(q) |-> Doc(i, q[i], Absent, Absent, Absent, Absent, Absent)] :
        q \in SeqsUpTo(StoredSessionIds, MaxDocs)}

InputChars == {"4", "2", "-", " "}

ResolveInputs == SeqsUpTo(InputChars, MaxLen)

InitResolve == store \in ResolveStores /\ IdleAll

NextResolve ==
    \/ GetStart(1, ResolveInputs)
    \/ Attempt1(1)
    \/ Attempt2(1)
    \/ Attempt3(1)
    \/ ScanStep(1)
    \/ GetFinish(1)

SpecResolve == InitResolve /\ [][NextResolve]_vars

(***************************************************************************)
(* One GET /api/leads against every small store                            *)
(***************************************************************************)
ListMaxDocs == 4
MaxPage == 2

WithId(d, i) == Dict([d.v EXCEPT !["_id"] = ObjectId(i)])

\* the stores of at most n documents drawn from Templates, _id by position
Stores(Templates, n) ==
    {[i \in 1..Len(q) |-> WithId(q[i], i)] : q \in SeqsUpTo(Templates, n)}

PendingDoc == Doc(0, Str(s42), IntV(3), Datetime(2), Bool(FALSE), Absent, Absent)

BuyDoc ==
    Doc(0, Str(s42), IntV(5), Datetime(1), Bool(TRUE),
        Output(Bool(TRUE), Str(sBUY), IntV(900), Absent, Absent, Absent), Absent)

LowerBuyDoc ==
    Doc(0, IntV(42), Absent, Datetime(2), Bool(TRUE),
        Output(Bool(FALSE), Str(sbuy), Absent, Absent, Absent, Absent), Absent)

ListParams ==
    {[kind |-> "list", search |-> s, intent |-> f, qualified |-> q, sort |-> o,
      skip |-> k, limit |-> n] :
        s \in {Null, Str(<<"4">>)},
        f \in {Null, Str(sbuy), Str(sBUY)},
        q \in {Null, Bool(TRUE), Bool(FALSE)},
        o \in {"asc", "desc"},
        k \in 0..MaxPage,
        n \in 1..MaxPage}

InitList == store \in Stores({PendingDoc, BuyDoc, LowerBuyDoc}, ListMaxDocs) /\ IdleAll

NextList == ListStart(1, ListParams) \/ ListStep(1)

SpecList == InitList /\ [][NextList]_vars

(***************************************************************************)
(* One GET /api/stats against every small store                            *)
(***************************************************************************)
StatsMaxDocs == 4

EmptyOutputDoc ==
    Doc(0, Str(s42), IntV(2), Absent, Absent,
        Output(Absent, Absent, Absent, Absent, Absent, Absent), Absent)

BadConfidenceDoc ==
    Doc(0, Str(s242), IntV(1), Absent, Absent,
        Output(Null, Str(sSELL), Str(<<"h">>), Absent, Absent, Absent), Absent)

InitStats ==
    /\ store \in Stores({PendingDoc, EmptyOutputDoc, BuyDoc, LowerBuyDoc, BadConfidenceDoc},
                        StatsMaxDocs)
    /\ IdleAll

NextStats == StatsStart(1) \/ StatsStep(1)

SpecStats == InitStats /\ [][NextStats]_vars

(***************************************************************************)
(* Concurrent requests: every interleaving of the handlers' steps          *)
(***************************************************************************)
ConcMaxDocs == 2

ConcInputs == {s42, <<"-">>}

ConcListParams ==
    {[kind |-> "list", search |-> Null, intent |-> f, qualified |-> Null,
      sort |-> "desc", skip |-> 0, limit |-> 1] : f \in {Null, Str(sBUY)}}

Init == store \in Stores({PendingDoc, BuyDoc}, ConcMaxDocs) /\ IdleAll

\* the worker takes the next request
Recycle(r) ==
    /\ pc[r] = "done"
    /\ Apply(r, [pc |-> "idle", cur |-> 0, acc |-> NoAcc, resp |-> NoResp])
    /\ req' = [req EXCEPT ![r] = NoReq]
    /\ UNCHANGED store

Next ==
    \E r \in Reqs :
        \/ GetStart(r, ConcInputs)
        \/ Attempt1(r)
        \/ Attempt2(r)
        \/ Attempt3(r)
        \/ ScanStep(r)
        \/ GetFinish(r)
        \/ ListStart(r, ConcListParams)
        \/ ListStep(r)
        \/ StatsStart(r)
        \/ StatsStep(r)
        \/ HealthStart(r)
        \/ HealthStep(r)
        \/ Recycle(r)

Spec == Init /\ [][Next]_vars

\* a handler's first local state, and its next one
start(col, rq) ==
    CASE rq.kind = "get" -> start_get(rq.session_id)
      [] rq.kind = "list" -> start_list(col, rq)
      [] rq.kind = "stats" -> start_stats
      [] rq.kind = "health" -> start_health

step(col, rq, l) ==
    CASE l.pc = "attempt1" -> attempt1(col, l)
      [] l.pc = "attempt2" -> attempt2(col, l)
      [] l.pc = "attempt3" -> attempt3(col, l)
      [] l.pc = "scan" -> scan_step(col, l)
      [] l.pc = "resolved" -> get_finish(col, l)
      [] l.pc = "list_iter" -> list_step(col, rq, l)
      [] l.pc = "stats_iter" -> stats_step(col, l)
      [] l.pc \in {"ping", "count", "health_iter"} -> health_step(col, l)

\* the response of the request rq run from start to end with nothing in between
RECURSIVE run(_, _, _)
run(col, rq, l) == IF l.pc = "done" THEN l.resp ELSE run(col, rq, step(col, rq, l))

RunAlone(col, rq) == run(col, rq, start(col, rq))

(***************************************************************************)
(* Properties                                                              *)
(***************************************************************************)
FlattenDone == pc[1] = "done" /\ req[1].kind = "flatten"

NonEmptyMapping(x) == x.t = "dict" /\ \E k \in DOMAIN x.v : x.v[k] # Absent

\* C4: hasOutput is true exactly when the document's output is a non-empty
\* mapping, and a lead with hasOutput false carries intent "PENDING",
\* qualified false, confidence 0 and empty signals and summary.
C4_PendingDefaults ==
    FlattenDone =>
        LET lead == resp[1].body
        IN  /\ lead.hasOutput \in {Bool(TRUE), Bool(FALSE)}
            /\ lead.hasOutput.v <=> NonEmptyMapping(store[1].v.output)
            /\ ~lead.hasOutput.v =>
                  /\ lead.intent = Str(sPENDING)
                  /\ lead.qualified = Bool(FALSE)
                  /\ lead.confidence = IntV(0)
                  /\ lead.signals = List(<<>>)
                  /\ lead.summary = List(<<>>)

\* an empty output mapping beside populated base fields was flattened as pending
C4_Witness ==
    /\ FlattenDone
    /\ store[1].v.output = Output(Absent, Absent, Absent, Absent, Absent, Absent)
    /\ store[1].v.messageLength = IntV(5)
    /\ resp[1].body.hasOutput = Bool(FALSE)
    /\ resp[1].body.intent = Str(sPENDING)

LeadFields ==
    {"sessionId", "messageLength", "analysedAt", "leadAnalysed", "hasOutput",
     "qualified", "intent", "confidence", "signals", "summary"}

\* C5: flatten_lead returns, for every input mapping, a Lead with all ten
\* fields of the documented types: sessionId a string, messageLength a
\* non-negative integer, analysedAt a timestamp string or null, leadAnalysed,
\* hasOutput and qualified booleans, intent a string, confidence a number,
\* signals and summary sequences.
C5_FlattenWellTyped ==
    FlattenDone =>
        LET lead == resp[1].body
        IN  /\ DOMAIN lead = LeadFields
            /\ lead.sessionId.t = "str"
            /\ lead.messageLength.t = "int" /\ lead.messageLength.v >= 0
            /\ lead.analysedAt.t \in {"str", "null"}
            /\ lead.leadAnalysed.t = "bool"
            /\ lead.hasOutput.t = "bool"
            /\ lead.qualified.t = "bool"
            /\ lead.intent.t = "str"
            /\ lead.confidence.t = "int"
            /\ lead.signals.t = "list"
            /\ lead.summary.t = "list"

ChatDone == pc[1] = "done" /\ req[1].kind = "chat"

EmptyContent == {Absent, Null, Str(<<>>), IntV(0), Bool(FALSE), List(<<>>)}

\* the content a messages entry carries, Absent when it carries none
EntryContent(m) ==
    IF m.t # "dict" THEN Absent
    ELSE IF m.v.data.t = "str" THEN m.v.data
    ELSE IF m.v.data.t = "dict" THEN m.v.data.v.content
    ELSE Absent

CarriesContent(m) == EntryContent(m) \notin EmptyContent

\* C6: extract_chat returns exactly the messages entries that are mappings
\* with non-empty content (data a non-empty string, or data a mapping with a
\* content that is not empty or falsy), in their original order, every
\* content a string; nothing when messages is absent or not a sequence.
C6_ChatExtraction ==
    ChatDone =>
        LET messages == store[1].v.messages
            chat == resp[1].body
        IN  IF messages.t # "list" THEN chat = <<>>
            ELSE LET kept == SelectSeq(messages.v, CarriesContent)
                 IN  /\ Len(chat) = Len(kept)
                     /\ \A i \in 1..Len(kept) :
                           /\ chat[i].content.t = "str"
                           /\ chat[i].content.v = PyStr(EntryContent(kept[i]))
                           /\ chat[i].type =
                                 (IF kept[i].v.type = Absent THEN Str(sunknown)
                                  ELSE kept[i].v.type)

\* a dropped data={} entry comes before a kept string entry
C6_Witness ==
    /\ ChatDone
    /\ store[1].v.messages =
          List(<<Message(Str(shuman), Data(Absent)), Message(Absent, Str(shi))>>)
    /\ resp[1].body = <<[type |-> Str(sunknown), content |-> Str(shi)]>>

GetDone == pc[1] = "done" /\ req[1].kind = "get"

\* the stored documents whose sessionId is the string s
StringMatches(s) == {i \in DOMAIN store : store[i].v.sessionId = Str(s)}

\* the stored documents whose sessionId is the integer written by the digits ds
IntegerMatches(ds) ==
    IF ds = <<>> THEN {}
    ELSE {i \in DOMAIN store : store[i].v.sessionId = IntV(ParseInt(ds))}

\* the stringified sessionId of a stored document, "" when it has none
Stringified(d) == IF d.v.sessionId = Absent THEN <<>> ELSE PyStr(d.v.sessionId)

\* C1: when some stored document has a sessionId that is a string equal to the
\* trimmed input, find_by_session returns a document whose sessionId is that
\* exact string, found by the exact-match strategy, in any storage order.
C1_ExactPrecedence ==
    (GetDone /\ StringMatches(acc[1].sid) # {}) =>
        /\ acc[1].sid = strip(req[1].session_id)
        /\ acc[1].doc \in StringMatches(acc[1].sid)
        /\ acc[1].found_by = "exact"
        /\ acc[1].tried = {"exact"}
        /\ resp[1].status = 200
        /\ resp[1].body.sessionId = Str(acc[1].sid)

\* " 42" is looked up in a store holding the integer 242 before the string "42"
C1_Witness ==
    /\ GetDone
    /\ req[1].session_id = <<" ", "4", "2">>
    /\ Len(store) = 2
    /\ store[1].v.sessionId = IntV(242)
    /\ store[2].v.sessionId = Str(s42)
    /\ acc[1].doc = 2

\* C2: when no stored document has a string sessionId equal to the trimmed
\* input, none has the integer parsed from the input's digits, and none (in
\* the scan window or beyond it) has a stringified sessionId that is the
\* identifier or contains the input's digit sequence, find_by_session returns
\* None and the endpoint answers 404, also for an input without digits.
C2_Exhaustion ==
    (/\ GetDone
     /\ StringMatches(acc[1].sid) = {}
     /\ IntegerMatches(acc[1].digits) = {}
     /\ \A i \in DOMAIN store :
          /\ Stringified(store[i]) # acc[1].sid
          /\ acc[1].digits # <<>> => ~Contains(Stringified(store[i]), acc[1].digits))
    => (acc[1].doc = 0 /\ resp[1].status = 404)

\* C3: when no stored document has the trimmed input as its string sessionId,
\* the input has a digit, and some stored document has the integer parsed from
\* the digits as its sessionId, find_by_session returns such a document, found
\* by the numeric strategy with neither the regex nor the scan tried.
C3_NumericFallback ==
    (/\ GetDone
     /\ StringMatches(acc[1].sid) = {}
     /\ acc[1].digits # <<>>
     /\ IntegerMatches(acc[1].digits) # {})
    => /\ acc[1].doc \in IntegerMatches(acc[1].digits)
       /\ acc[1].found_by = "int"
       /\ acc[1].tried = {"exact", "int"}
       /\ resp[1].status = 200

\* "4-2" is looked up in a store holding the string "242" before the integer 42
C3_Witness ==
    /\ GetDone
    /\ req[1].session_id = <<"4", "-", "2">>
    /\ Len(store) = 2
    /\ store[1].v.sessionId = Str(s242)
    /\ store[2].v.sessionId = IntV(42)
    /\ acc[1].doc = 2
    /\ acc[1].found_by = "int"

ListDone == pc[1] = "done" /\ req[1].kind = "list"

MinOf(a, b) == IF a <= b THEN a ELSE b
MaxOf(a, b) == IF a >= b THEN a ELSE b

\* the leads of the fetched window, in cursor order
FetchedLeads ==
    LET window == list_cursor(store, req[1].search, req[1].sort)
    IN  [k \in 1..Len(window) |-> flatten_lead(store[window[k]])]

NoIntentFilter == req[1].intent \in {Null, Str(<<>>)}

\* the qualified filter of the request lets the lead through
QualifiedFilterPasses(lead) ==
    req[1].qualified = Null \/ lead.qualified = req[1].qualified

\* the filters as list_leads applies them: the intent against the upper-cased value
Kept(lead) ==
    /\ lead.hasOutput = Bool(TRUE)
    /\ NoIntentFilter \/ lead.intent = Str(upper(req[1].intent.v))
    /\ QualifiedFilterPasses(lead)

\* C7: among the fetched window (at most the cursor's limit), list_leads keeps
\* only the leads with hasOutput true that pass the filters; total is their
\* number, the returned leads are positions skip .. skip+limit-1 of that
\* sequence, min(limit, max(0, total-skip)) of them, and hasMore is true
\* exactly when skip+limit < total.
C7_ListPagination ==
    ListDone =>
        LET filtered == SelectSeq(FetchedLeads, Kept)
            total == Len(filtered)
            body == resp[1].body
            skip == req[1].skip
            lim == req[1].limit
        IN  /\ Len(FetchedLeads) <= ListLimit
            /\ resp[1].status = 200
            /\ body.total = total
            /\ Len(body.leads) = MinOf(lim, MaxOf(0, total - skip))
            /\ \A j \in 1..Len(body.leads) : body.leads[j] = filtered[skip + j]
            /\ body.hasMore <=> (skip + lim < total)
            /\ body.skip = skip /\ body.limit = lim

\* skip=0, limit=1 over three analysed leads and a pending one, no filter
C7_Witness ==
    /\ ListDone
    /\ req[1].skip = 0 /\ req[1].limit = 1
    /\ req[1].intent = Null /\ req[1].qualified = Null /\ req[1].search = Null
    /\ Len(store) = 4
    /\ \E i \in DOMAIN store : store[i].v.output = Absent
    /\ resp[1].body.total = 3
    /\ Len(resp[1].body.leads) = 1
    /\ resp[1].body.hasMore

SameIgnoringCase(a, b) == a.t = "str" /\ b.t = "str" /\ upper(a.v) = upper(b.v)

\* C8: with an intent filter f, an analysed lead of the fetched window that
\* passes the qualified filter is in the list result exactly when its intent
\* differs from f at most in letter case, whichever of the two is lower case.
C8_IntentCaseInsensitive ==
    (ListDone /\ ~NoIntentFilter) =>
        \A k \in 1..Len(FetchedLeads) :
            LET lead == FetchedLeads[k]
            IN  (lead.hasOutput = Bool(TRUE) /\ QualifiedFilterPasses(lead)) =>
                    ((\E j \in 1..Len(acc[1].all_leads) : acc[1].all_leads[j] = lead)
                        <=> SameIgnoringCase(lead.intent, req[1].intent))

StatsDone == pc[1] = "done" /\ req[1].kind = "stats"

\* the scanned documents whose output is a non-empty mapping
ScannedAnalysed ==
    {i \in DOMAIN store : i <= StatsLimit /\ NonEmptyMapping(store[i].v.output)}

RECURSIVE SumCounts(_)
SumCounts(f) ==
    IF DOMAIN f = {} THEN 0
    ELSE LET k == CHOOSE x \in DOMAIN f : TRUE
         IN  f[k] + SumCounts([x \in DOMAIN f \ {k} |-> f[x]])

ZeroStats ==
    [total |-> 0, qualified |-> 0, notQualified |-> 0, qualificationRate |-> 0,
     avgConfidence |-> 0, avgMessages |-> 0, intentBreakdown |-> <<>>]

C10_ReadOnlyIndependent ==
    /\ [][store' = store]_vars
    /\ [](\A r \in Reqs : pc[r] = "done" => resp[r] = RunAlone(store, req[r]))

\* a list request finished while another list request was in mid-iteration
C10_Witness ==
    /\ req[1].kind = "list" /\ req[2].kind = "list"
    /\ req[1].intent # req[2].intent
    /\ pc[1] = "list_iter" /\ cur[1] = 2
    /\ pc[2] = "done"
    /\ Len(store) = 2
    /\ resp[2].body.total = 2

====
